---- MODULE Spec2Model ----
(***************************************************************************)
(* Model of tiledb/ml/readers/_tensor_gen.py: the dense and sparse tensor  *)
(* generators and the tensor_generator batch pipeline that drives them     *)
(* with the windows produced by iter_batches.                              *)
(***************************************************************************)
EXTENDS Integers, Sequences, FiniteSets, TLC

\* ------------------------------------------------------------------ bounds
\* Largest number of rows (shape[0]) of an array.
MaxRows == 4
\* Largest x_buffer_size / y_buffer_size.
MaxBufferSize == 3
\* Number of columns (shape[1]) of every array.
Cols == 2
\* Number of times the pipeline is iterated.
MaxPasses == 2
\* Number of calls made on a generator object that is used on its own.
MaxCalls == 3

\* ----------------------------------------------------------------- helpers
Min(a, b) == IF a <= b THEN a ELSE b

Max(a, b) == IF a >= b THEN a ELSE b

\* A Python slice(start, stop) object.
Slice(a, b) == [start |-> a, stop |-> b]

\* Python's None where an Optional[slice] is expected.
None == [start |-> -1, stop |-> -1]

\* seq[sl] for a Python sequence / the leading axis of an ndarray.
PySlice(seq, sl) == SubSeq(seq, Min(sl.start, Len(seq)) + 1, Min(sl.stop, Len(seq)))

\* ------------------------------------------------------- the array store
\* schema.shape of an array: (rows, Cols) or (rows, Cols, Cols).
SchemaShape(array) ==
    IF array.ndim = 2 THEN <<array.rows, Cols>> ELSE <<array.rows, Cols, Cols>>

\* schema.domain.dim(i).name
DimName(array, i) == IF i = 0 THEN "rows" ELSE "cols"

\* schema.attr(attr).dtype
AttrDtype(array, attr) == <<"dtype", array.name, attr>>

\* The value stored in cell (r, c) of attribute attr: a known pattern that
\* tells apart the array, the attribute and the cell.
Cell(array, attr, r, c) == <<array.name, attr, r, c>>

\* One row of a dense attribute: its cells, whatever the number of
\* dimensions behind the row dimension.
DenseRow(array, attr, r) == [i \in 1..Cols |-> Cell(array, attr, r, i - 1)]

\* Which cells of a sparse array hold a value.
Populated(array, r, c) == (r + c + array.phase) % 2 = 0

\* The coordinates of the populated cells of rows [sl.start, sl.stop), in
\* row-major order, as the store returns them.
SparseCoords(array, sl) ==
    LET n == IF sl.stop > sl.start THEN sl.stop - sl.start ELSE 0
        grid == [i \in 1..(n * Cols) |-> <<sl.start + ((i - 1) \div Cols), (i - 1) % Cols>>]
    IN  SelectSeq(grid, LAMBDA rc : Populated(array, rc[1], rc[2]))

\* query[array_slice] of a dense array: attribute -> rows of the slice, in
\* the order of attrs.
QueryDense(query, sl) ==
    [i \in 1..Len(query.attrs) |->
        [k \in 1..(sl.stop - sl.start) |->
            DenseRow(query.array, query.attrs[i], sl.start + k - 1)]]

\* query[array_slice] of a sparse array: the two coordinate arrays and one
\* value array per attribute.
QuerySparse(query, sl) ==
    LET coords == SparseCoords(query.array, sl)
    IN  [row  |-> [k \in 1..Len(coords) |-> coords[k][1]],
         col  |-> [k \in 1..Len(coords) |-> coords[k][2]],
         data |-> [i \in 1..Len(query.attrs) |->
                     [k \in 1..Len(coords) |->
                        Cell(query.array, query.attrs[i], coords[k][1], coords[k][2])]]]

\* ------------------------------------------------------ generator objects
\* The array of an object that holds no query.
NoArray == [name |-> "", sparse |-> FALSE, ndim |-> 0, rows |-> 0, phase |-> 0]

\* An object of no class yet: no attribute set.
NoGen ==
    [cls |-> "none", fields |-> {}, query |-> [array |-> NoArray, attrs |-> <<>>], row_dim |-> "", col_dim |-> "",
     row_shape |-> <<>>, attr_dtypes |-> <<>>, buf |-> <<>>]

\* TileDBTensorGenerator.__init__: opens the query.
BaseInit(self, array, attrs) ==
    [self EXCEPT !.fields = @ \cup {"_query"},
                 !.query = [array |-> array, attrs |-> attrs]]

\* TileDBNumpyGenerator(array, attrs): the inherited constructor.
DenseInit(array, attrs) ==
    [err |-> "", gen |-> BaseInit([NoGen EXCEPT !.cls = "dense"], array, attrs)]

\* Mutant: the query is opened before the dimensionality is checked.
SparseInitQueryFirst(array, attrs) ==
    LET self == BaseInit([NoGen EXCEPT !.cls = "sparse"], array, attrs)
    IN  IF array.ndim # 2
        THEN [err |-> "NotImplementedError", gen |-> self]
        ELSE [err |-> "",
              gen |-> [self EXCEPT
                         !.fields = @ \cup {"_row_dim", "_col_dim", "_row_shape", "_attr_dtypes"},
                         !.row_dim = DimName(array, 0),
                         !.col_dim = DimName(array, 1),
                         !.row_shape = Tail(SchemaShape(array)),
                         !.attr_dtypes = [i \in 1..Len(attrs) |-> AttrDtype(array, attrs[i])]]]

\* SparseTileDBTensorGenerator.__init__
SparseInit(array, attrs) ==
    IF array.ndim # 2
    THEN [err |-> "NotImplementedError", gen |-> [NoGen EXCEPT !.cls = "sparse"]]
    ELSE [err |-> "",
          gen |-> BaseInit(
                    [NoGen EXCEPT
                       !.cls = "sparse",
                       !.fields = {"_row_dim", "_col_dim", "_row_shape", "_attr_dtypes"},
                       !.row_dim = DimName(array, 0),
                       !.col_dim = DimName(array, 1),
                       !.row_shape = Tail(SchemaShape(array)),
                       !.attr_dtypes = [i \in 1..Len(attrs) |-> AttrDtype(array, attrs[i])]],
                    array, attrs)]

\* TileDBNumpyGenerator.read_buffer
DenseReadBuffer(self, array_slice) ==
    [self EXCEPT !.fields = @ \cup {"_buf_arrays"},
                 !.buf = QueryDense(self.query, array_slice)]

\* A numpy array as a tensor: its type and its rows.
NdArray(rows) == [kind |-> "ndarray", rows |-> rows]

\* Mutant: the buffer-local slice is applied as if the buffer started at row 0
\* of the array (the first rows of the buffer are always returned).
DenseIterTensorsFromZero(self, buffer_slice) ==
    IF "_buf_arrays" \notin self.fields
    THEN [err |-> "AttributeError", tensors |-> <<>>]
    ELSE [err |-> "",
          tensors |-> [i \in 1..Len(self.buf) |->
                         NdArray(PySlice(self.buf[i],
                                         Slice(0, buffer_slice.stop - buffer_slice.start)))]]

\* Mutant: without a buffer the generator yields nothing, as if the
\* constructor had set an empty buffer.
DenseIterTensorsEmptyUnset(self, buffer_slice) ==
    IF "_buf_arrays" \notin self.fields
    THEN [err |-> "", tensors |-> <<>>]
    ELSE [err |-> "",
          tensors |-> [i \in 1..Len(self.buf) |-> NdArray(PySlice(self.buf[i], buffer_slice))]]

\* TileDBNumpyGenerator.iter_tensors, drained: one tensor per buffered
\* attribute; reading self._buf_arrays raises when it was never set.
DenseIterTensors(self, buffer_slice) ==
    IF "_buf_arrays" \notin self.fields
    THEN [err |-> "AttributeError", tensors |-> <<>>]
    ELSE [err |-> "",
          tensors |-> [i \in 1..Len(self.buf) |-> NdArray(PySlice(self.buf[i], buffer_slice))]]

\* scipy.sparse.csr_matrix((data, (row, col)), shape): the entries in
\* row-major order, with the shape given.
CsrMatrix(data, row, col, shape) ==
    [shape |-> shape,
     entries |-> [k \in 1..Len(data) |-> [r |-> row[k], c |-> col[k], v |-> data[k]]]]

\* csr[buffer_slice]: the rows of the slice, renumbered from 0.
CsrGetRows(csr, sl) ==
    LET a == Min(sl.start, csr.shape[1])
        b == Min(sl.stop, csr.shape[1])
        kept == SelectSeq(csr.entries, LAMBDA e : a <= e.r /\ e.r < b)
    IN  [shape |-> <<Max(0, b - a)>> \o Tail(csr.shape),
         entries |-> [k \in 1..Len(kept) |-> [kept[k] EXCEPT !.r = @ - a]]]

\* Mutant: the row coordinates are not rebased to the start of the slice read.
SparseReadBufferNoRebase(self, array_slice) ==
    LET buffer == QuerySparse(self.query, array_slice)
        shape == <<array_slice.stop - array_slice.start>> \o self.row_shape
    IN  [self EXCEPT
           !.fields = @ \cup {"_buf_csrs"},
           !.buf = [i \in 1..Len(buffer.data) |->
                      CsrMatrix(buffer.data[i], buffer.row, buffer.col, shape)]]

\* SparseTileDBTensorGenerator.read_buffer
SparseReadBuffer(self, array_slice) ==
    LET buffer == QuerySparse(self.query, array_slice)
        start_offset == array_slice.start
        stop_offset == array_slice.stop
        shape == <<stop_offset - start_offset>> \o self.row_shape
    IN  [self EXCEPT
           !.fields = @ \cup {"_buf_csrs"},
           !.buf = [i \in 1..Len(buffer.data) |->
                      CsrMatrix(buffer.data[i],
                                [k \in 1..Len(buffer.row) |-> buffer.row[k] - start_offset],
                                buffer.col, shape)]]

\* The concrete subclass's _tensor_from_coo: the sparse tensor is the
\* quadruple it is built from.
TensorFromCoo(data, coords, dense_shape, dtype) ==
    [kind |-> "sparse", data |-> data, coords |-> coords, dense_shape |-> dense_shape,
     dtype |-> dtype]

\* SparseTileDBTensorGenerator.iter_tensors, drained.
SparseIterTensors(self, buffer_slice) ==
    IF "_buf_csrs" \notin self.fields
    THEN [err |-> "AttributeError", tensors |-> <<>>]
    ELSE [err |-> "",
          tensors |->
            [i \in 1..Min(Len(self.buf), Len(self.attr_dtypes)) |->
               LET batch_csr == CsrGetRows(self.buf[i], buffer_slice)
                   batch_coo == batch_csr.entries
                   data == [k \in 1..Len(batch_coo) |-> batch_coo[k].v]
                   coords == [k \in 1..Len(batch_coo) |-> <<batch_coo[k].r, batch_coo[k].c>>]
                   dense_shape == <<batch_csr.shape[1]>> \o self.row_shape
               IN  TensorFromCoo(data, coords, dense_shape, self.attr_dtypes[i])]]

\* Dispatch on the class of the generator object.
ReadBuffer(gen, array_slice) ==
    IF gen.cls = "sparse"
    THEN SparseReadBuffer(gen, array_slice)
    ELSE DenseReadBuffer(gen, array_slice)

IterTensors(gen, buffer_slice) ==
    IF gen.cls = "sparse"
    THEN SparseIterTensors(gen, buffer_slice)
    ELSE DenseIterTensors(gen, buffer_slice)

\* tensor_generator.get_buffer_size_generator
GetBufferSizeGenerator(array, attrs) ==
    IF array.sparse THEN SparseInit(array, attrs) ELSE DenseInit(array, attrs)

\* ------------------------------------------------------------ iter_batches
\* Mutant: the windower starts as if the label buffer had been fetched.
IterBatchesInitLabelBuffered(x_buffer_size, y_buffer_size, start_offset, stop_offset) ==
    [x_buffer_size |-> x_buffer_size, y_buffer_size |-> y_buffer_size,
     stop_offset |-> stop_offset,
     x_buf |-> Slice(start_offset, start_offset), x_cursor |-> start_offset,
     y_buf |-> Slice(start_offset, IF start_offset + y_buffer_size <= stop_offset
                                   THEN start_offset + y_buffer_size ELSE stop_offset),
     y_cursor |-> start_offset]

\* The windower before its first step: both buffers empty at start_offset.
IterBatchesInit(x_buffer_size, y_buffer_size, start_offset, stop_offset) ==
    [x_buffer_size |-> x_buffer_size, y_buffer_size |-> y_buffer_size,
     stop_offset |-> stop_offset,
     x_buf |-> Slice(start_offset, start_offset), x_cursor |-> start_offset,
     y_buf |-> Slice(start_offset, start_offset), y_cursor |-> start_offset]

NoIt == IterBatchesInit(0, 0, 0, 0)

\* The sequence ends when both cursors have reached stop_offset.
IterBatchesDone(it) ==
    it.x_cursor >= it.stop_offset /\ it.y_cursor >= it.stop_offset

\* Mutant: a fetch is always of buffer_size rows, also at the end of the
\* row range.
NextReadSliceUnclipped(cursor, buf, buffer_size, stop_offset) ==
    IF cursor >= buf.stop
    THEN Slice(cursor, cursor + buffer_size)
    ELSE None

\* The slice to fetch when the buffer [buf.start, buf.stop) is used up at
\* cursor, else None.
NextReadSlice(cursor, buf, buffer_size, stop_offset) ==
    IF cursor >= buf.stop
    THEN Slice(cursor, Min(cursor + buffer_size, stop_offset))
    ELSE None

\* Mutant: every step extracts a single row.
IterBatchesNextUnitWidth(it) ==
    LET x_read == NextReadSlice(it.x_cursor, it.x_buf, it.x_buffer_size, it.stop_offset)
        y_read == NextReadSlice(it.y_cursor, it.y_buf, it.y_buffer_size, it.stop_offset)
        x_buf == IF x_read # None THEN x_read ELSE it.x_buf
        y_buf == IF y_read # None THEN y_read ELSE it.y_buf
        width == 1
    IN  [batch |-> [x_read_slice |-> x_read, y_read_slice |-> y_read,
                    x_buffer_slice |-> Slice(it.x_cursor - x_buf.start,
                                             it.x_cursor - x_buf.start + width),
                    y_buffer_slice |-> Slice(it.y_cursor - y_buf.start,
                                             it.y_cursor - y_buf.start + width)],
         it |-> [it EXCEPT !.x_buf = x_buf, !.y_buf = y_buf,
                           !.x_cursor = @ + width, !.y_cursor = @ + width]]

\* Mutant: a step that fetches a buffer extracts nothing from it yet.
IterBatchesNextFetchOnly(it) ==
    LET x_read == NextReadSlice(it.x_cursor, it.x_buf, it.x_buffer_size, it.stop_offset)
        y_read == NextReadSlice(it.y_cursor, it.y_buf, it.y_buffer_size, it.stop_offset)
        x_buf == IF x_read # None THEN x_read ELSE it.x_buf
        y_buf == IF y_read # None THEN y_read ELSE it.y_buf
        width == IF x_read # None \/ y_read # None THEN 0
                 ELSE Min(x_buf.stop - it.x_cursor, y_buf.stop - it.y_cursor)
    IN  [batch |-> [x_read_slice |-> x_read, y_read_slice |-> y_read,
                    x_buffer_slice |-> Slice(it.x_cursor - x_buf.start,
                                             it.x_cursor - x_buf.start + width),
                    y_buffer_slice |-> Slice(it.y_cursor - y_buf.start,
                                             it.y_cursor - y_buf.start + width)],
         it |-> [it EXCEPT !.x_buf = x_buf, !.y_buf = y_buf,
                           !.x_cursor = @ + width, !.y_cursor = @ + width]]

\* One step of the windower: the Batch it yields and its state afterwards.
IterBatchesNext(it) ==
    LET x_read == NextReadSlice(it.x_cursor, it.x_buf, it.x_buffer_size, it.stop_offset)
        y_read == NextReadSlice(it.y_cursor, it.y_buf, it.y_buffer_size, it.stop_offset)
        x_buf == IF x_read # None THEN x_read ELSE it.x_buf
        y_buf == IF y_read # None THEN y_read ELSE it.y_buf
        width == Min(x_buf.stop - it.x_cursor, y_buf.stop - it.y_cursor)
    IN  [batch |-> [x_read_slice |-> x_read, y_read_slice |-> y_read,
                    x_buffer_slice |-> Slice(it.x_cursor - x_buf.start,
                                             it.x_cursor - x_buf.start + width),
                    y_buffer_slice |-> Slice(it.y_cursor - y_buf.start,
                                             it.y_cursor - y_buf.start + width)],
         it |-> [it EXCEPT !.x_buf = x_buf, !.y_buf = y_buf,
                           !.x_cursor = @ + width, !.y_cursor = @ + width]]

\* --------------------------------------------------------------- the state
VARIABLES
    x_array,    \* the feature array
    y_array,    \* the label array
    args,       \* the other arguments given to tensor_generator
    loader,     \* the data loader built over the two arrays
    pc,         \* where the current tensor_generator generator object stands
    x_gen,      \* tensor_generator's local x_gen
    y_gen,      \* tensor_generator's local y_gen
    it,         \* the iter_batches iterator of the for loop
    obj,        \* the object last handed to a generator constructor
    out,        \* the batch last yielded (or the tensors last produced)
    err,        \* the exception last raised
    hist,       \* per pass: the steps taken and how the pass stands
    other       \* the second generator object, while it is not the one running

vars == <<x_array, y_array, args, loader, pc, x_gen, y_gen, it, obj, out, err, hist, other>>

\* ------------------------------------------------------- tensor_generator
\* The data loader's constructor: both arrays must report the same number
\* of rows.
SameKeyRange(x, y) == x.rows = y.rows

\* Mutant: a stop_offset of 0 is passed on as it is.
DefaultStopOffsetKept(stop_offset, array) == stop_offset

\* Mutant: the default stop_offset is the index of the last row.
DefaultStopOffsetLastRow(stop_offset, array) ==
    IF stop_offset = 0 THEN SchemaShape(array)[1] - 1 ELSE stop_offset

\* if not stop_offset: stop_offset = x_array.shape[0]
DefaultStopOffset(stop_offset, array) ==
    IF stop_offset = 0 THEN SchemaShape(array)[1] ELSE stop_offset

\* Mutant: the buffer is read anew in every step, whether or not the window
\* carries a read slice.
IsTruthyAlways(read_slice) == TRUE

\* if batch.x_read_slice: / if batch.y_read_slice:
IsTruthy(read_slice) == read_slice # None

\* Mutant: the feature extraction always starts at the top of the buffer.
XBufferSliceFromZero(batch) ==
    Slice(0, batch.x_buffer_slice.stop - batch.x_buffer_slice.start)

\* The slice handed to x_gen.iter_tensors.
XBufferSlice(batch) == batch.x_buffer_slice

\* Mutant: the label generator is handed the feature stream's slice.
YBufferSliceAsX(batch) == batch.x_buffer_slice

\* The slice handed to y_gen.iter_tensors.
YBufferSlice(batch) == batch.y_buffer_slice

\* Mutant: the label tensors come first.
YieldBatchLabelsFirst(x_tensors, y_tensors) == y_tensors \o x_tensors

\* yield (*x_tensors, *y_tensors)
YieldBatch(x_tensors, y_tensors) == x_tensors \o y_tensors

\* The state of the generator object's frame after construction of both
\* generators (results xr, yr) and of the windower.
SetupFrom(xr, yr, x, a) ==
    IF xr.err # ""
    THEN [err |-> xr.err, obj |-> xr.gen, x_gen |-> NoGen, y_gen |-> NoGen, it |-> NoIt]
    ELSE IF yr.err # ""
    THEN [err |-> yr.err, obj |-> yr.gen, x_gen |-> xr.gen, y_gen |-> NoGen, it |-> NoIt]
    ELSE [err |-> "", obj |-> yr.gen, x_gen |-> xr.gen, y_gen |-> yr.gen,
          it |-> IterBatchesInit(a.x_buffer_size, a.y_buffer_size, a.start_offset,
                                 DefaultStopOffset(a.stop_offset, x))]

\* The body of tensor_generator up to the for loop: both generators are
\* constructed, then the windower.
Setup(x, y, a) ==
    SetupFrom(GetBufferSizeGenerator(x, a.x_attrs), GetBufferSizeGenerator(y, a.y_attrs), x, a)

\* One call on a collaborator, as logged in a step.
CallOf(op, gen, arg) == [op |-> op, gen |-> gen, arg |-> arg]

\* The calls of one turn of the loop, in the order they are made.
CallsOf(batch) ==
    (IF IsTruthy(batch.x_read_slice)
     THEN <<CallOf("read_buffer", "x", batch.x_read_slice)>> ELSE <<>>)
    \o (IF IsTruthy(batch.y_read_slice)
        THEN <<CallOf("read_buffer", "y", batch.y_read_slice)>> ELSE <<>>)
    \o <<CallOf("iter_tensors", "x", XBufferSlice(batch)),
         CallOf("iter_tensors", "y", YBufferSlice(batch))>>

\* Mutant: a generator that is not told to read drops the buffer it holds.
RefillOrDrop(gen, read_slice) ==
    IF IsTruthy(read_slice) THEN ReadBuffer(gen, read_slice) ELSE [gen EXCEPT !.buf = <<>>]

\* if batch.<stream>_read_slice: <stream>_gen.read_buffer(batch.<stream>_read_slice)
Refill(gen, read_slice) ==
    IF IsTruthy(read_slice) THEN ReadBuffer(gen, read_slice) ELSE gen

\* The record of one turn of the for loop: its Batch, the calls made and,
\* unless draining the tensors (xt, then yt) raised, the tuple yielded.
StepOf(batch, xt, yt) ==
    [batch |-> batch, calls |-> CallsOf(batch),
     x_tensors |-> IF xt.err = "" /\ yt.err = "" THEN xt.tensors ELSE <<>>,
     y_tensors |-> IF xt.err = "" /\ yt.err = "" THEN yt.tensors ELSE <<>>,
     yielded |-> IF xt.err = "" /\ yt.err = ""
                 THEN YieldBatch(xt.tensors, yt.tensors) ELSE <<>>]

\* ------------------------------------------------------------------- Init
\* No second generator object exists.
NoOther == [made |-> FALSE]

\* The arrays: dense ones (the code never looks at their dimensionality)
\* and sparse ones of 2 and of 3 dimensions.
Arrays(name, phase) ==
    {a \in [name : {name}, sparse : BOOLEAN, ndim : {2, 3}, rows : 1..MaxRows,
            phase : {phase}] : a.sparse \/ a.ndim = 2}

AttrChoices == {<<"a">>, <<"b", "a">>}

Init ==
    /\ x_array \in Arrays("x", 0)
    /\ y_array \in {y \in Arrays("y", 1) : y.rows \in {x_array.rows, x_array.rows - 1}}
    /\ args \in [x_buffer_size : 1..MaxBufferSize, y_buffer_size : 1..MaxBufferSize,
                 x_attrs : AttrChoices, y_attrs : {<<"l">>},
                 start_offset : 0..(MaxRows - 1), stop_offset : 0..MaxRows]
    /\ args.stop_offset <= x_array.rows
    /\ args.start_offset < (IF args.stop_offset = 0 THEN x_array.rows ELSE args.stop_offset)
    /\ loader = "new"
    /\ pc = "none"
    /\ x_gen = NoGen
    /\ y_gen = NoGen
    /\ it = NoIt
    /\ obj = NoGen
    /\ out = <<>>
    /\ err = ""
    /\ hist = <<>>
    /\ other = NoOther

\* ---------------------------------------------------------------- actions
\* Mutant: the data loader is built without comparing the row counts.
NewLoaderUnchecked ==
    /\ loader = "new"
    /\ loader' = "ready"
    /\ UNCHANGED <<x_array, y_array, args, pc, x_gen, y_gen, it, obj, out, err, hist, other>>

\* The data loader is constructed over the two arrays.
NewLoader ==
    /\ loader = "new"
    /\ IF SameKeyRange(x_array, y_array)
       THEN loader' = "ready" /\ err' = err
       ELSE loader' = "failed" /\ err' = "ValueError"
    /\ UNCHANGED <<x_array, y_array, args, pc, x_gen, y_gen, it, obj, out, hist, other>>

\* Mutant: a new pass is handed the generator object of the previous pass.
CallReusesGenerator ==
    /\ loader = "ready"
    /\ pc \in {"none", "done", "raised"}
    /\ Len(hist) < MaxPasses
    /\ IF hist = <<>>
       THEN /\ pc' = "created"
            /\ x_gen' = NoGen /\ y_gen' = NoGen /\ it' = NoIt
            /\ hist' = Append(hist, [steps |-> <<>>, end |-> "created"])
       ELSE /\ UNCHANGED <<pc, x_gen, y_gen, it>>
            /\ hist' = Append(hist, [steps |-> <<>>, end |-> pc])
    /\ UNCHANGED <<x_array, y_array, args, loader, obj, out, err, other>>

\* tensor_generator(...) is called: a new generator object, nothing run yet.
Call ==
    /\ loader = "ready"
    /\ pc \in {"none", "done", "raised", "closed"}
    /\ Len(hist) < MaxPasses
    /\ pc' = "created"
    /\ x_gen' = NoGen /\ y_gen' = NoGen /\ it' = NoIt
    /\ hist' = Append(hist, [steps |-> <<>>, end |-> "created"])
    /\ UNCHANGED <<x_array, y_array, args, loader, obj, out, err, other>>

\* tensor_generator(...) is called once only.
CallOnce == Call /\ hist = <<>>

\* The frame of the generator object when it is resumed: built by the code
\* before the loop on the first pull, as it was left at the yield later on.
Frame ==
    IF pc = "created"
    THEN Setup(x_array, y_array, args)
    ELSE [err |-> "", obj |-> obj, x_gen |-> x_gen, y_gen |-> y_gen, it |-> it]

\* The generator object ends in frame s: a constructor raised (e # ""), or
\* the windower is exhausted.
Ended(s, e) ==
    /\ pc' = IF e # "" THEN "raised" ELSE "done"
    /\ err' = IF e # "" THEN e ELSE err
    /\ obj' = s.obj
    /\ x_gen' = s.x_gen
    /\ y_gen' = s.y_gen
    /\ it' = s.it
    /\ out' = out
    /\ hist' = [hist EXCEPT ![Len(hist)].end = pc']

\* Mutant: once the batch is ready the buffers of the next step are fetched
\* ahead of the consumer's request.
TurnedPrefetch(s, next_it, xg1, yg1, step, e) ==
    /\ pc' = IF e # "" THEN "raised" ELSE "suspended"
    /\ err' = IF e # "" THEN e ELSE err
    /\ obj' = s.obj
    /\ x_gen' = IF IterBatchesDone(next_it) THEN xg1
                ELSE Refill(xg1, IterBatchesNext(next_it).batch.x_read_slice)
    /\ y_gen' = IF IterBatchesDone(next_it) THEN yg1
                ELSE Refill(yg1, IterBatchesNext(next_it).batch.y_read_slice)
    /\ it' = next_it
    /\ out' = IF e # "" THEN out ELSE step.yielded
    /\ hist' = [hist EXCEPT ![Len(hist)] = [steps |-> Append(@.steps, step), end |-> pc']]

\* The generator object after a turn of the loop: suspended at the yield,
\* or ended by the exception e.
Turned(s, next_it, xg1, yg1, step, e) ==
    /\ pc' = IF e # "" THEN "raised" ELSE "suspended"
    /\ err' = IF e # "" THEN e ELSE err
    /\ obj' = s.obj
    /\ x_gen' = xg1
    /\ y_gen' = yg1
    /\ it' = next_it
    /\ out' = IF e # "" THEN out ELSE step.yielded
    /\ hist' = [hist EXCEPT ![Len(hist)] = [steps |-> Append(@.steps, step), end |-> pc']]

\* The consumer asks the generator object for its next batch: the code runs
\* from its start, or from the last yield, to the next yield or to its end.
Pull ==
    /\ pc \in {"created", "suspended"}
    /\ \E s \in {Frame} :
         IF s.err # "" THEN Ended(s, s.err)
         ELSE IF IterBatchesDone(s.it) THEN Ended(s, "")
         ELSE \E nb \in {IterBatchesNext(s.it)} :
              \E xg1 \in {Refill(s.x_gen, nb.batch.x_read_slice)} :
              \E yg1 \in {Refill(s.y_gen, nb.batch.y_read_slice)} :
              \E xt \in {IterTensors(xg1, XBufferSlice(nb.batch))} :
              \E yt \in {IterTensors(yg1, YBufferSlice(nb.batch))} :
                 Turned(s, nb.it, xg1, yg1, StepOf(nb.batch, xt, yt),
                        IF xt.err # "" THEN xt.err ELSE yt.err)
    /\ UNCHANGED <<x_array, y_array, args, loader, other>>

Next == NewLoader \/ Call \/ Pull

Spec == Init /\ [][Next]_vars

\* The pipelines whose progress is followed to the end: one attribute per
\* array, a dense label array.
InitLive ==
    /\ Init
    /\ ~y_array.sparse
    /\ args.x_attrs = <<"a">>

\* The consumer keeps pulling: a generator object that can be resumed is
\* resumed.
FairSpec == InitLive /\ [][Next]_vars /\ WF_vars(Pull)

\* ------------------------------------------------- abandoned iteration
\* The consumer drops the generator object before its end: close() raises
\* GeneratorExit at the yield (or ends a generator object never started);
\* no statement of the body runs.
Close ==
    /\ pc \in {"created", "suspended"}
    /\ pc' = "closed"
    /\ hist' = [hist EXCEPT ![Len(hist)].end = "closed"]
    /\ UNCHANGED <<x_array, y_array, args, loader, x_gen, y_gen, it, obj, out, err, other>>

NextLazy == NewLoader \/ Call \/ Pull \/ Close

SpecLazy == InitLive /\ [][NextLazy]_vars

\* ------------------------------------------------- a failing store read
\* The exception the store raises when a read fails.
StoreError == "TileDBError"

\* read_buffer(array_slice) when the query raises: the exception leaves the
\* method before the buffer is assigned.
FailedRead(gen, array_slice) == gen

\* The calls of a turn of the loop up to the read_buffer on stream g that
\* raises, and the raise.
CallsUntilRaise(batch, g) ==
    (IF g = "y" /\ IsTruthy(batch.x_read_slice)
     THEN <<CallOf("read_buffer", "x", batch.x_read_slice)>> ELSE <<>>)
    \o <<CallOf("read_buffer", g, IF g = "x" THEN batch.x_read_slice ELSE batch.y_read_slice),
         CallOf("raise", g, IF g = "x" THEN batch.x_read_slice ELSE batch.y_read_slice)>>

\* Mutant: the exception of the store is caught in the loop and the turn
\* goes on with the buffer the generator holds.
RaisedSwallowed(s, nb, xg1, yg1, g) ==
    \E xt \in {IterTensors(xg1, XBufferSlice(nb.batch))} :
    \E yt \in {IterTensors(yg1, YBufferSlice(nb.batch))} :
        Turned(s, nb.it, xg1, yg1,
               [StepOf(nb.batch, xt, yt) EXCEPT
                   !.calls = CallsUntilRaise(nb.batch, g)
                             \o <<CallOf("iter_tensors", "x", XBufferSlice(nb.batch)),
                                  CallOf("iter_tensors", "y", YBufferSlice(nb.batch))>>],
               IF xt.err # "" THEN xt.err ELSE yt.err)

\* The generator object after the read_buffer on stream g raised in the
\* turn of window nb: nothing in the body catches the exception, it leaves
\* the generator object, which is finished.
Raised(s, nb, xg1, yg1, g) ==
    /\ pc' = "raised"
    /\ err' = StoreError
    /\ obj' = s.obj
    /\ x_gen' = xg1
    /\ y_gen' = yg1
    /\ it' = nb.it
    /\ out' = out
    /\ hist' = [hist EXCEPT ![Len(hist)] =
                  [steps |-> Append(@.steps,
                                    [batch |-> nb.batch, calls |-> CallsUntilRaise(nb.batch, g),
                                     x_tensors |-> <<>>, y_tensors |-> <<>>, yielded |-> <<>>]),
                   end |-> "raised"]]

\* A pull in which the store fails the read of stream g.
PullFailing ==
    /\ pc \in {"created", "suspended"}
    /\ \E s \in {Frame} :
         /\ s.err = ""
         /\ ~IterBatchesDone(s.it)
         /\ \E nb \in {IterBatchesNext(s.it)} :
            \/ /\ IsTruthy(nb.batch.x_read_slice)
               /\ Raised(s, nb, FailedRead(s.x_gen, nb.batch.x_read_slice), s.y_gen, "x")
            \/ /\ IsTruthy(nb.batch.y_read_slice)
               /\ Raised(s, nb, Refill(s.x_gen, nb.batch.x_read_slice),
                         FailedRead(s.y_gen, nb.batch.y_read_slice), "y")
    /\ UNCHANGED <<x_array, y_array, args, loader, other>>

\* next() on a generator object that has finished, by exhaustion or by an
\* exception: StopIteration, and no statement of the body runs.
PullEnded ==
    /\ pc \in {"done", "raised"}
    /\ err' = "StopIteration"
    /\ UNCHANGED <<x_array, y_array, args, loader, pc, x_gen, y_gen, it, obj, out, hist, other>>

NextFault == NewLoader \/ CallOnce \/ Pull \/ PullFailing \/ PullEnded

SpecFault == Init /\ [][NextFault]_vars

\* ------------------------------------------- a generator used on its own
\* One generator object over x_array, called directly: the arguments of
\* the pipeline play no part.
InitGen ==
    /\ Init
    /\ y_array = [name |-> "y", sparse |-> FALSE, ndim |-> 2, rows |-> x_array.rows, phase |-> 1]
    /\ args.x_buffer_size = 1 /\ args.y_buffer_size = 1
    /\ args.start_offset = 0 /\ args.stop_offset = 0

\* The state after a constructor call gave result r.
Constructed(r) ==
    /\ obj' = r.gen
    /\ err' = r.err
    /\ x_gen' = IF r.err = "" THEN r.gen ELSE NoGen
    /\ pc' = IF r.err = "" THEN "built" ELSE "raised"

\* The generator class of x_array is instantiated.
GenConstruct ==
    /\ pc = "none"
    /\ Constructed(GetBufferSizeGenerator(x_array, args.x_attrs))
    /\ hist' = Append(hist, [op |-> "__init__", err |-> err', n |-> 0])
    /\ UNCHANGED <<x_array, y_array, args, loader, y_gen, it, out, other>>

\* read_buffer is called with a slice of the array.
GenReadBuffer ==
    /\ pc = "built"
    /\ Len(hist) <= MaxCalls
    /\ \E a \in 0..(x_array.rows - 1) : \E b \in (a + 1)..Min(a + MaxBufferSize, x_array.rows) :
          x_gen' = ReadBuffer(x_gen, Slice(a, b))
    /\ hist' = Append(hist, [op |-> "read_buffer", err |-> "", n |-> 0])
    /\ UNCHANGED <<x_array, y_array, args, loader, pc, y_gen, it, obj, out, err, other>>

\* The state after iter_tensors, drained by the caller, gave result r.
Drained(r) ==
    /\ out' = r.tensors
    /\ err' = r.err
    /\ hist' = Append(hist, [op |-> "iter_tensors", err |-> r.err, n |-> Len(r.tensors)])

\* iter_tensors is called with a slice and its iterator is drained.
GenIterTensors ==
    /\ pc = "built"
    /\ Len(hist) <= MaxCalls
    /\ \E a \in 0..(MaxBufferSize - 1) : \E b \in (a + 1)..MaxBufferSize :
          Drained(IterTensors(x_gen, Slice(a, b)))
    /\ UNCHANGED <<x_array, y_array, args, loader, pc, x_gen, y_gen, it, obj, other>>

NextGen == GenConstruct \/ GenReadBuffer \/ GenIterTensors

SpecGen == InitGen /\ [][NextGen]_vars

\* ------------------------------------------- two pipelines side by side
\* stop_offset as documented: 0 stands for the number of rows.
StopOf(a, x) == IF a.stop_offset = 0 THEN x.rows ELSE a.stop_offset

\* The row ranges left to a second pipeline by the range of the first:
\* the rows after it and the rows before it.
DisjointRanges(a, x) ==
    {r \in {Slice(StopOf(a, x), x.rows), Slice(0, a.start_offset)} : r.start < r.stop}

\* The running generator object, as a value: the arguments it was called
\* with, its locals and what its consumer holds of it.
Running ==
    [made |-> TRUE, args |-> args, pc |-> pc, x_gen |-> x_gen, y_gen |-> y_gen,
     it |-> it, obj |-> obj, out |-> out, err |-> err, hist |-> hist]

\* Mutant: the windower's cursors are module-level state, so the generator
\* object that is resumed finds them where the other one left them.
ResumeSharedCursors(f) ==
    /\ args' = f.args /\ pc' = f.pc /\ x_gen' = f.x_gen /\ y_gen' = f.y_gen
    /\ it' = IF f.pc = "suspended" /\ pc = "suspended" THEN it ELSE f.it
    /\ obj' = f.obj /\ out' = f.out /\ err' = f.err /\ hist' = f.hist

\* The generator object f becomes the running one: every local is its own.
Resume(f) ==
    /\ args' = f.args /\ pc' = f.pc /\ x_gen' = f.x_gen /\ y_gen' = f.y_gen
    /\ it' = f.it
    /\ obj' = f.obj /\ out' = f.out /\ err' = f.err /\ hist' = f.hist

\* tensor_generator is called a second time over the same arrays, with a
\* row range disjoint from the first call's: a second generator object.
Spawn ==
    /\ loader = "ready"
    /\ pc = "created"
    /\ Len(hist) = 1
    /\ ~other.made
    /\ \E r \in DisjointRanges(args, x_array) :
          other' = [made |-> TRUE,
                    args |-> [args EXCEPT !.start_offset = r.start, !.stop_offset = r.stop],
                    pc |-> "created", x_gen |-> NoGen, y_gen |-> NoGen, it |-> NoIt,
                    obj |-> NoGen, out |-> <<>>, err |-> "",
                    hist |-> <<[steps |-> <<>>, end |-> "created"]>>]
    /\ UNCHANGED <<x_array, y_array, args, loader, pc, x_gen, y_gen, it, obj, out, err, hist>>

\* The consumers take turns: the other generator object is the one pulled
\* next.
Switch ==
    /\ other.made
    /\ other' = Running
    /\ Resume(other)
    /\ UNCHANGED <<x_array, y_array, loader>>

\* One pass of each pipeline: a dense label array, one feature attribute.
InitPair ==
    /\ Init
    /\ ~y_array.sparse
    /\ x_array.rows = y_array.rows
    /\ args.x_attrs = <<"a">>
    /\ DisjointRanges(args, x_array) # {}

NextPair == NewLoader \/ CallOnce \/ Pull \/ Spawn \/ Switch

SpecPair == InitPair /\ [][NextPair]_vars

\* The steps of a pass run to its end on its own, from generators xg, yg
\* and windower w.
RECURSIVE StepsFrom(_, _, _)
StepsFrom(xg, yg, w) ==
    IF IterBatchesDone(w) THEN <<>>
    ELSE LET nb == IterBatchesNext(w)
             xg1 == Refill(xg, nb.batch.x_read_slice)
             yg1 == Refill(yg, nb.batch.y_read_slice)
             xt == IterTensors(xg1, XBufferSlice(nb.batch))
             yt == IterTensors(yg1, YBufferSlice(nb.batch))
         IN  <<StepOf(nb.batch, xt, yt)>> \o StepsFrom(xg1, yg1, nb.it)

\* The steps of tensor_generator(x, y, **a) iterated alone to its end.
RunAlone(x, y, a) ==
    LET s == Setup(x, y, a)
    IN  IF s.err # "" THEN <<>> ELSE StepsFrom(s.x_gen, s.y_gen, s.it)

\* ------------------------------------------------------ reading the history
\* stop_offset as documented: 0 stands for the number of rows.
EffectiveStop == IF args.stop_offset = 0 THEN x_array.rows ELSE args.stop_offset

\* The array and the attributes of a stream.
ArrayOf(g) == IF g = "x" THEN x_array ELSE y_array

AttrsOf(g) == IF g = "x" THEN args.x_attrs ELSE args.y_attrs

\* The tensors a step produced for a stream.
TensorsOf(step, g) == IF g = "x" THEN step.x_tensors ELSE step.y_tensors

\* The slice a step's read_buffer call on stream g was given, None if the
\* step made no such call.
ReadCall(step, g) ==
    LET S == {i \in 1..Len(step.calls) :
                step.calls[i].op = "read_buffer" /\ step.calls[i].gen = g}
    IN  IF S = {} THEN None ELSE step.calls[CHOOSE i \in S : TRUE].arg

\* The slice a step's iter_tensors call on stream g was given.
IterCall(step, g) ==
    LET S == {i \in 1..Len(step.calls) :
                step.calls[i].op = "iter_tensors" /\ step.calls[i].gen = g}
    IN  IF S = {} THEN None ELSE step.calls[CHOOSE i \in S : TRUE].arg

\* The slice of the last read_buffer call on stream g up to step k.
LastRead(steps, k, g) ==
    LET J == {j \in 1..k : ReadCall(steps[j], g) # None}
    IN  IF J = {} THEN None ELSE ReadCall(steps[CHOOSE j \in J : \A i \in J : i <= j], g)

SliceLen(sl) == sl.stop - sl.start

RECURSIVE Flatten(_)
Flatten(ss) == IF ss = <<>> THEN <<>> ELSE Head(ss) \o Flatten(Tail(ss))

RECURSIVE Sum(_)
Sum(ns) == IF ns = <<>> THEN 0 ELSE Head(ns) + Sum(Tail(ns))

Streams == {"x", "y"}

\* ------------------------------------------------------------------ claims
\* C1: at every step of a pass the slices handed to the two generators'
\* iter_tensors have the same width and, added to the start of the stream's
\* last read slice, denote the same global row interval.
C1_KeyAlignment ==
    \A p \in 1..Len(hist) : \A k \in 1..Len(hist[p].steps) :
        LET steps == hist[p].steps
            xe == IterCall(steps[k], "x")
            ye == IterCall(steps[k], "y")
            xr == LastRead(steps, k, "x")
            yr == LastRead(steps, k, "y")
        IN  /\ xr # None /\ yr # None
            /\ SliceLen(xe) = SliceLen(ye)
            /\ xr.start + xe.start = yr.start + ye.start

\* A finished pass in which the two buffers have a different cadence: some
\* step extracts at different buffer-local positions of the two streams.
C1_Witness ==
    \E p \in 1..Len(hist) :
        /\ hist[p].end = "done"
        /\ Len(hist[p].steps) >= 3
        /\ \E k \in 1..Len(hist[p].steps) :
              IterCall(hist[p].steps[k], "x").start # IterCall(hist[p].steps[k], "y").start

\* C2: for a dense stream, the rows emitted over a finished pass are, per
\* attribute and in order, exactly the source rows start_offset ..
\* stop_offset - 1; for any stream the rows consumed number stop_offset -
\* start_offset.
C2_ExactCoverage ==
    \A p \in 1..Len(hist) : \A g \in Streams :
        hist[p].end = "done" =>
            LET steps == hist[p].steps
                n == EffectiveStop - args.start_offset
            IN  /\ Sum([k \in 1..Len(steps) |-> SliceLen(IterCall(steps[k], g))]) = n
                /\ ~ArrayOf(g).sparse =>
                      \A i \in 1..Len(AttrsOf(g)) :
                          Flatten([k \in 1..Len(steps) |-> TensorsOf(steps[k], g)[i].rows])
                            = [j \in 1..n |->
                                 DenseRow(ArrayOf(g), AttrsOf(g)[i], args.start_offset + j - 1)]
                /\ ArrayOf(g).sparse =>
                      \A i \in 1..Len(AttrsOf(g)) :
                          Sum([k \in 1..Len(steps) |->
                                 TensorsOf(steps[k], g)[i].dense_shape[1]]) = n

\* A finished pass over a dense feature array that took several buffer
\* fetches and, within one buffer, several extractions.
C2_Witness ==
    \E p \in 1..Len(hist) :
        /\ hist[p].end = "done"
        /\ ~x_array.sparse
        /\ args.start_offset > 0
        /\ Cardinality({k \in 1..Len(hist[p].steps) :
                          ReadCall(hist[p].steps[k], "x") # None}) >= 2
        /\ \E k \in 1..Len(hist[p].steps) : ReadCall(hist[p].steps[k], "x") = None

C4_Restartability ==
    \A p \in 1..Len(hist) : \A q \in 1..Len(hist) :
        (p < q /\ hist[p].end = "done" /\ hist[q].end = "done") =>
            /\ Len(hist[p].steps) > 0
            /\ hist[q].steps = hist[p].steps

\* Two passes have finished, each of several steps with a buffer reused.
C4_Witness ==
    /\ Len(hist) = 2
    /\ hist[1].end = "done" /\ hist[2].end = "done"
    /\ Len(hist[2].steps) >= 3
    /\ \E k \in 1..Len(hist[2].steps) : ReadCall(hist[2].steps[k], "y") = None

\* The number of rows of a generator's current buffer.
BufRows(gen) ==
    IF gen.buf = <<>> THEN 0
    ELSE IF gen.cls = "sparse" THEN gen.buf[1].shape[1] ELSE Len(gen.buf[1])

GenOf(g) == IF g = "x" THEN x_gen ELSE y_gen

\* C5: at every step and for each stream the slice handed to iter_tensors
\* is non-empty and lies inside the rows of the stream's last read slice,
\* which are the rows the generator's buffer holds.
C5_ExtractInsideBuffer ==
    \A p \in 1..Len(hist) : \A k \in 1..Len(hist[p].steps) : \A g \in Streams :
        LET steps == hist[p].steps
            e == IterCall(steps[k], g)
            r == LastRead(steps, k, g)
        IN  /\ r # None
            /\ 0 <= e.start /\ e.start < e.stop /\ e.stop <= SliceLen(r)
            /\ (p = Len(hist) /\ k = Len(steps)) => BufRows(GenOf(g)) = SliceLen(r)

\* A step whose width was clipped at the end of the feature buffer while
\* the label buffer, fetched in an earlier step and partly consumed, still
\* held rows beyond it.
C5_Witness ==
    \E p \in 1..Len(hist) : \E k \in 1..Len(hist[p].steps) :
        LET steps == hist[p].steps
        IN  /\ k > 1
            /\ IterCall(steps[k], "x").stop = SliceLen(LastRead(steps, k, "x"))
            /\ IterCall(steps[k], "y").stop < SliceLen(LastRead(steps, k, "y"))
            /\ ReadCall(steps[k], "y") = None
            /\ IterCall(steps[k], "y").start > 0

\* The cells a sparse tensor holds, as (row, column, value) triples.
CellsOf(t) == {<<t.coords[j][1], t.coords[j][2], t.data[j]>> : j \in 1..Len(t.coords)}

\* C6: for a sparse stream, every tensor emitted in a step holds exactly
\* the populated cells of the rows extracted, each with its row coordinate
\* counted from the start of the extract slice, so 0 <= row < length of the
\* extract slice; and the buffer holds rows counted from the start of the
\* slice read.
C6_Rebasing ==
    \A g \in Streams : ArrayOf(g).sparse =>
        /\ \A i \in 1..Len(GenOf(g).buf) : \A j \in 1..Len(GenOf(g).buf[i].entries) :
              /\ 0 <= GenOf(g).buf[i].entries[j].r
              /\ GenOf(g).buf[i].entries[j].r < GenOf(g).buf[i].shape[1]
        /\ \A p \in 1..Len(hist) : \A k \in 1..Len(hist[p].steps) :
              LET steps == hist[p].steps
                  e == IterCall(steps[k], g)
                  base == LastRead(steps, k, g).start + e.start
              IN  \A i \in 1..Len(TensorsOf(steps[k], g)) :
                      LET t == TensorsOf(steps[k], g)[i]
                      IN  /\ \A j \in 1..Len(t.coords) :
                                0 <= t.coords[j][1] /\ t.coords[j][1] < SliceLen(e)
                          /\ Len(t.data) = Len(t.coords)
                          /\ CellsOf(t) =
                               {<<r, c, Cell(ArrayOf(g), AttrsOf(g)[i], base + r, c)>> :
                                   <<r, c>> \in {rc \in (0..(SliceLen(e) - 1)) \X (0..(Cols - 1)) :
                                                   Populated(ArrayOf(g), base + rc[1], rc[2])}}

\* A sparse feature stream emitted cells from the middle of a buffer that
\* does not start at row 0 of the array.
C6_Witness ==
    /\ x_array.sparse
    /\ \E p \in 1..Len(hist) : \E k \in 1..Len(hist[p].steps) :
          /\ LastRead(hist[p].steps, k, "x").start > 0
          /\ IterCall(hist[p].steps[k], "x").start > 0
          /\ hist[p].steps[k].x_tensors[1].coords # <<>>

\* C7: a sparse array whose schema is not 2-dimensional makes the
\* construction of its generator raise: the object has no attribute set
\* (no query, no buffer), the pass takes no step and so reads nothing.
C7_SparseSchemaGuard ==
    /\ err = "NotImplementedError" =>
          /\ pc \in {"raised", "created"}
          /\ obj.cls = "sparse"
          /\ obj.fields = {}
          /\ obj.buf = <<>>
          /\ \A p \in 1..Len(hist) : hist[p].steps = <<>>
    /\ \A g \in Streams :
          (ArrayOf(g).sparse /\ ArrayOf(g).ndim # 2) =>
              /\ pc \in {"none", "created", "raised"}
              /\ pc = "raised" => err = "NotImplementedError"
              /\ GenOf(g) = NoGen
              /\ out = <<>>

\* The label array is sparse and 3-dimensional: its generator's constructor
\* raised after the feature generator had been built.
C7_Witness ==
    /\ err = "NotImplementedError"
    /\ y_array.sparse /\ y_array.ndim = 3
    /\ "_query" \in x_gen.fields

\* Whether tensor t is the n rows extracted of attribute attr of stream g.
TensorIsOf(t, g, attr, n) ==
    IF ArrayOf(g).sparse
    THEN /\ t.kind = "sparse"
         /\ t.dtype = AttrDtype(ArrayOf(g), attr)
         /\ t.dense_shape[1] = n
         /\ \A j \in 1..Len(t.data) : t.data[j][1] = g /\ t.data[j][2] = attr
    ELSE /\ t.kind = "ndarray"
         /\ Len(t.rows) = n
         /\ \A r \in 1..Len(t.rows) : t.rows[r][1][1] = g /\ t.rows[r][1][2] = attr

\* C8: every batch yielded is a tuple of len(x_attrs) + len(y_attrs)
\* tensors, those of the feature attributes first and in declared order,
\* then those of the label attributes, each with a leading dimension equal
\* to the length of the step's extract slice.
C8_BatchShape ==
    \A p \in 1..Len(hist) : \A k \in 1..Len(hist[p].steps) :
        LET step == hist[p].steps[k]
            nx == Len(args.x_attrs)
            ny == Len(args.y_attrs)
        IN  /\ Len(step.yielded) = nx + ny
            /\ \A i \in 1..nx :
                  TensorIsOf(step.yielded[i], "x", args.x_attrs[i],
                             SliceLen(IterCall(step, "x")))
            /\ \A j \in 1..ny :
                  TensorIsOf(step.yielded[nx + j], "y", args.y_attrs[j],
                             SliceLen(IterCall(step, "y")))
            /\ (p = Len(hist) /\ k = Len(hist[p].steps)) => out = step.yielded

\* A batch of two feature tensors and one label tensor, of a width smaller
\* than either buffer.
C8_Witness ==
    /\ pc = "suspended"
    /\ Len(out) = 3
    /\ args.x_attrs = <<"b", "a">>
    /\ x_array.sparse /\ ~y_array.sparse
    /\ Len(out[3].rows) = 1
    /\ args.x_buffer_size > 1 /\ args.y_buffer_size > 1

Constructible == \A g \in Streams : ~(ArrayOf(g).sparse /\ ArrayOf(g).ndim # 2)

\* Both cursors of the windower stand at stop_offset.
BothAtStop == it.x_cursor = EffectiveStop /\ it.y_cursor = EffectiveStop

\* C10: a pass that the consumer keeps pulling ends: within stop_offset -
\* start_offset steps, at the pull that finds both cursors at stop_offset
\* and at no other; the two cursors reach stop_offset in the same step.
\* (Specification FairSpec.)
C10_Termination ==
    /\ [](pc = "done" => BothAtStop)
    /\ [](pc \in {"suspended", "done"} =>
            /\ (it.x_cursor = EffectiveStop) <=> (it.y_cursor = EffectiveStop)
            /\ Len(hist[Len(hist)].steps) <= EffectiveStop - args.start_offset)
    /\ [][(pc = "suspended" /\ pc' # "suspended") => (BothAtStop /\ pc' = "done")]_vars
    /\ [][(pc = "suspended" /\ BothAtStop) => pc' = "done"]_vars
    /\ (pc = "created" /\ Constructible) ~> (pc = "done")

\* A pass of several steps, over buffers of different sizes neither of
\* which divides the row range, has ended.
C10_Witness ==
    /\ pc = "done"
    /\ BothAtStop
    /\ Len(hist[Len(hist)].steps) >= 3
    /\ args.x_buffer_size = 2 /\ args.y_buffer_size = 3
    /\ EffectiveStop - args.start_offset = 4

\* The rows of each array that the passes of generator object f have read
\* from the store.
RowsRead(f) ==
    UNION {UNION {{<<g, r>> : r \in ReadCall(f.hist[p].steps[k], g).start ..
                                     (ReadCall(f.hist[p].steps[k], g).stop - 1)} :
                    g \in Streams} :
             <<p, k>> \in {pk \in (1..Len(f.hist)) \X (1..MaxRows + 1) :
                             pk[2] <= Len(f.hist[pk[1]].steps)}}

\* The rows generator object f was asked for.
RowsOf(f) == {<<g, r>> : <<g, r>> \in Streams \X (f.args.start_offset .. (StopOf(f.args, x_array) - 1))}

\* Whether generator object f stands where a run of it alone, pulled as
\* often, would stand: same steps, same batch in hand, cursors and buffers
\* inside its own row range.
AsAlone(f) ==
    \A p \in 1..Len(f.hist) :
        LET ref == RunAlone(x_array, y_array, f.args)
            steps == f.hist[p].steps
            n == Len(steps)
        IN  /\ n <= Len(ref)
            /\ steps = SubSeq(ref, 1, n)
            /\ f.hist[p].end = "done" => n = Len(ref)
            /\ f.hist[p].end = "suspended" =>
                  /\ f.out = ref[n].yielded
                  /\ f.it.x_cursor = f.args.start_offset
                        + Sum([k \in 1..n |-> SliceLen(IterCall(steps[k], "x"))])
                  /\ f.it.y_cursor = f.it.x_cursor
                  /\ \A g \in Streams :
                        (IF g = "x" THEN f.x_gen ELSE f.y_gen).buf
                          = ReadBuffer(GetBufferSizeGenerator(ArrayOf(g), AttrsOf(g)).gen,
                                       LastRead(steps, n, g)).buf

\* C11: two generator objects over disjoint row ranges, pulled in any
\* interleaving: each takes exactly the steps, and yields exactly the
\* batches, of a run of it alone; the rows either reads lie in its own range,
\* so the two sets of rows read are disjoint; cursors and buffers are each
\* object's own.  (Specification SpecPair.)
C11_IndependentPipelines ==
    other.made =>
        /\ AsAlone(Running)
        /\ AsAlone(other)
        /\ RowsRead(Running) \subseteq RowsOf(Running)
        /\ RowsRead(other) \subseteq RowsOf(other)
        /\ RowsRead(Running) \cap RowsRead(other) = {}

\* Both generator objects stand in the middle of their pass, each with a
\* batch yielded and a buffer partly consumed, after the consumers took
\* turns more than once.
C11_Witness ==
    /\ other.made
    /\ pc = "suspended" /\ other.pc = "suspended"
    /\ Len(hist[1].steps) = 2 /\ Len(other.hist[1].steps) = 2
    /\ x_gen.buf # <<>> /\ other.x_gen.buf # <<>>
    /\ x_gen.buf # other.x_gen.buf

\* The windows iter_batches produces from state w on, to its end.
RECURSIVE WindowsFrom(_)
WindowsFrom(w) ==
    IF IterBatchesDone(w) THEN <<>>
    ELSE <<IterBatchesNext(w).batch>> \o WindowsFrom(IterBatchesNext(w).it)

\* The windows of a pass with arguments a over feature array x.
Windows(a, x) ==
    WindowsFrom(IterBatchesInit(a.x_buffer_size, a.y_buffer_size, a.start_offset,
                                DefaultStopOffset(a.stop_offset, x)))

\* The steps of the pass that is current.
Steps == IF hist = <<>> THEN <<>> ELSE hist[Len(hist)].steps

\* The buffer a generator of stream g holds after read_buffer(sl), and
\* before any read_buffer when sl is None.
BufferOf(g, sl) ==
    IF sl = None THEN <<>>
    ELSE ReadBuffer(GetBufferSizeGenerator(ArrayOf(g), AttrsOf(g)).gen, sl).buf

\* Whether the store reads of the current pass are exactly those signalled
\* by the windows of the batches handed out so far, and the buffers those
\* of the last such read.
ReadsAsSignalled ==
    LET w == Windows(args, x_array)
        k == Len(Steps)
    IN  /\ k <= Len(w)
        /\ \A j \in 1..k :
              /\ Steps[j].batch = w[j]
              /\ ReadCall(Steps[j], "x") = w[j].x_read_slice
              /\ ReadCall(Steps[j], "y") = w[j].y_read_slice
        /\ \A g \in Streams : GenOf(g).buf = BufferOf(g, LastRead(Steps, k, g))

\* C12: nothing is read before the consumer asks for a batch; when k
\* batches have been handed out the reads made and the buffers held are
\* those of the first k windows, none of window k + 1; abandoning the pass
\* runs nothing, and nothing runs afterwards until a new pass is pulled.
\* (Specification SpecLazy.)
C12_LazyPull ==
    /\ [](pc = "created" => (x_gen = NoGen /\ y_gen = NoGen /\ Steps = <<>>))
    /\ [](pc \in {"suspended", "done"} => ReadsAsSignalled)
    /\ [](pc = "closed" /\ Steps # <<>> => ReadsAsSignalled)
    /\ [][pc' = "closed" =>
            (x_gen' = x_gen /\ y_gen' = y_gen /\ it' = it /\ out' = out /\ Steps' = Steps)]_vars
    /\ [][pc = "closed" => (x_gen' = NoGen /\ y_gen' = NoGen /\ Steps' = <<>>)]_vars

\* The consumer abandoned a pass after two batches, one step before a
\* window that signals a read on both streams.
C12_Witness ==
    /\ pc = "closed"
    /\ Len(Steps) = 2
    /\ Len(Windows(args, x_array)) > 2
    /\ Windows(args, x_array)[3].x_read_slice # None
    /\ Windows(args, x_array)[3].y_read_slice # None
    /\ x_gen.buf # <<>>

\* The positions in a step's calls of a raise / of a call of operation op
\* on stream g.
CallsAt(step, op, g) ==
    {i \in 1..Len(step.calls) : step.calls[i].op = op /\ step.calls[i].gen = g}

\* Whether the store failed a read in the step.
HasRaise(step) == \E g \in Streams : CallsAt(step, "raise", g) # {}

\* C13: a step in which the store fails a read: the read was asked once,
\* no iter_tensors call follows, no batch is yielded, the step is the last
\* of its pass and the pass has ended by the exception; at the failing pull
\* the consumer gets the store's exception as it is, the batch in hand is
\* not replaced, and later pulls of that generator object give no batch.
\* (Specification SpecFault.)
C13_ReadFailure ==
    /\ [](\A p \in 1..Len(hist) : \A k \in 1..Len(hist[p].steps) :
            LET step == hist[p].steps[k]
            IN  HasRaise(step) =>
                  /\ k = Len(hist[p].steps)
                  /\ hist[p].end = "raised"
                  /\ step.yielded = <<>>
                  /\ \A g \in Streams :
                        /\ CallsAt(step, "iter_tensors", g) = {}
                        /\ Cardinality(CallsAt(step, "read_buffer", g)) <= 1
                        /\ CallsAt(step, "raise", g) # {} =>
                              step.calls[Len(step.calls) - 1]
                                = CallOf("read_buffer", g, ReadCall(step, g))
                  /\ p = Len(hist) => pc = "raised")
    /\ [][(Steps' # Steps /\ Steps' # <<>> /\ HasRaise(Steps'[Len(Steps')])) =>
            (pc' = "raised" /\ err' = StoreError /\ out' = out)]_vars
    /\ [][(pc = "raised" /\ pc' = "raised") => (out' = out /\ hist' = hist
                                                /\ x_gen' = x_gen /\ y_gen' = y_gen)]_vars

\* The store failed the label read of a later step, after batches had been
\* yielded and with the feature buffer just refilled; the consumer pulled
\* once more.
C13_Witness ==
    /\ pc = "raised"
    /\ err = "StopIteration"
    /\ Len(Steps) >= 3
    /\ CallsAt(Steps[Len(Steps)], "raise", "y") # {}
    /\ ReadCall(Steps[Len(Steps)], "x") # None
    /\ out # <<>>

\* The read slice / the buffer slice of a window for stream g.
ReadSliceOf(batch, g) == IF g = "x" THEN batch.x_read_slice ELSE batch.y_read_slice

BufferSliceOf(batch, g) == IF g = "x" THEN batch.x_buffer_slice ELSE batch.y_buffer_slice

\* C14: in every step, read_buffer is called on a stream's generator
\* exactly when the window carries a read slice for that stream, and with
\* that slice; every read_buffer call comes before both iter_tensors calls;
\* iter_tensors is called once on each generator, with that stream's buffer
\* slice; the tensors of the batch yielded are cut from the buffer as the
\* step's refill left it.
C14_RefillProtocol ==
    \A p \in 1..Len(hist) : \A k \in 1..Len(hist[p].steps) :
        LET steps == hist[p].steps
            step == steps[k]
            reads == UNION {CallsAt(step, "read_buffer", g) : g \in Streams}
            iters == UNION {CallsAt(step, "iter_tensors", g) : g \in Streams}
        IN  /\ \A g \in Streams :
                  /\ (CallsAt(step, "read_buffer", g) # {}) <=> (ReadSliceOf(step.batch, g) # None)
                  /\ Cardinality(CallsAt(step, "read_buffer", g)) <= 1
                  /\ \A i \in CallsAt(step, "read_buffer", g) :
                        step.calls[i].arg = ReadSliceOf(step.batch, g)
                  /\ Cardinality(CallsAt(step, "iter_tensors", g)) = 1
                  /\ \A i \in CallsAt(step, "iter_tensors", g) :
                        step.calls[i].arg = BufferSliceOf(step.batch, g)
                  /\ TensorsOf(step, g)
                       = IterTensors([GetBufferSizeGenerator(ArrayOf(g), AttrsOf(g)).gen
                                        EXCEPT !.fields = @ \cup {"_buf_arrays", "_buf_csrs"},
                                               !.buf = BufferOf(g, LastRead(steps, k, g))],
                                     BufferSliceOf(step.batch, g)).tensors
            /\ \A i \in reads : \A j \in iters : i < j
            /\ reads \cup iters = 1..Len(step.calls)
            /\ step.yielded = TensorsOf(step, "x") \o TensorsOf(step, "y")
            /\ step.yielded # <<>>

\* A finished pass with a step that refills only the feature buffer and a
\* step that refills only the label buffer.
C14_Witness ==
    \E p \in 1..Len(hist) :
        LET steps == hist[p].steps
        IN  /\ \E k \in 2..Len(steps) :
                  ReadCall(steps[k], "x") # None /\ ReadCall(steps[k], "y") = None
            /\ \E k \in 2..Len(steps) :
                  ReadCall(steps[k], "x") = None /\ ReadCall(steps[k], "y") # None
            /\ hist[p].end = "done"

\* The read slices signalled for stream g over steps, in order.
ReadSlices(steps, g) ==
    LET all == [k \in 1..Len(steps) |-> ReadCall(steps[k], g)]
    IN  SelectSeq(all, LAMBDA sl : sl # None)

BufferSizeOf(g) == IF g = "x" THEN args.x_buffer_size ELSE args.y_buffer_size

\* C15: for each stream the read slices of a pass are, in order,
\* [c, min(c + buffer_size, stop_offset)) with the first c at start_offset
\* and every next c at the stop of the slice before; over a finished pass
\* they cover [start_offset, stop_offset) exactly, each row once, and all but
\* possibly the last have buffer_size rows.
C15_ReadSlicesPartition ==
    \A p \in 1..Len(hist) : \A g \in Streams :
        LET rs == ReadSlices(hist[p].steps, g)
        IN  /\ \A i \in 1..Len(rs) :
                  /\ rs[i].start = IF i = 1 THEN args.start_offset ELSE rs[i - 1].stop
                  /\ rs[i].stop = Min(rs[i].start + BufferSizeOf(g), EffectiveStop)
                  /\ rs[i].start < rs[i].stop
                  /\ i < Len(rs) => SliceLen(rs[i]) = BufferSizeOf(g)
            /\ hist[p].end = "done" =>
                  /\ rs # <<>>
                  /\ rs[Len(rs)].stop = EffectiveStop
                  /\ \A r \in args.start_offset..(EffectiveStop - 1) :
                        Cardinality({i \in 1..Len(rs) : rs[i].start <= r /\ r < rs[i].stop}) = 1
                  /\ Sum([i \in 1..Len(rs) |-> SliceLen(rs[i])])
                       = EffectiveStop - args.start_offset

\* A finished pass from a row other than 0 in which the feature stream
\* made several reads, the last of fewer rows than the buffer size, and the
\* label stream a different number of reads.
C15_Witness ==
    \E p \in 1..Len(hist) :
        LET xs == ReadSlices(hist[p].steps, "x")
            ys == ReadSlices(hist[p].steps, "y")
        IN  /\ hist[p].end = "done"
            /\ args.start_offset > 0
            /\ Len(xs) >= 2
            /\ SliceLen(xs[Len(xs)]) < args.x_buffer_size
            /\ Len(ys) # Len(xs)

\* The global row at which step k of steps starts: start_offset plus the
\* rows extracted by the steps before.
CursorAt(steps, k) ==
    args.start_offset + Sum([j \in 1..(k - 1) |-> SliceLen(IterCall(steps[j], "x"))])

\* The rows of stream g's buffer not yet extracted when step k extracts: a
\* buffer fetched in step k counts in full.
Remaining(steps, k, g) == LastRead(steps, k, g).stop - CursorAt(steps, k)

\* C16: at every step both streams extract the same number of rows, the
\* smaller of the two streams' rows remaining in the buffer, where a stream
\* that fetches in this step counts with the rows it fetches: buffer_size,
\* or the rows left before stop_offset.
C16_WidthRule ==
    \A p \in 1..Len(hist) : \A k \in 1..Len(hist[p].steps) :
        LET steps == hist[p].steps
        IN  /\ \A g \in Streams :
                  /\ SliceLen(IterCall(steps[k], g))
                       = Min(Remaining(steps, k, "x"), Remaining(steps, k, "y"))
                  /\ ReadCall(steps[k], g) # None =>
                        Remaining(steps, k, g)
                          = Min(BufferSizeOf(g), EffectiveStop - CursorAt(steps, k))
                  /\ ReadCall(steps[k], g) = None =>
                        /\ 0 < Remaining(steps, k, g)
                        /\ Remaining(steps, k, g) < BufferSizeOf(g)

\* A step extracts two rows or more, and a later step is cut to the rows
\* left in the feature buffer while the label stream fetches more than that.
C16_Witness ==
    \E p \in 1..Len(hist) : \E k \in 2..Len(hist[p].steps) :
        LET steps == hist[p].steps
        IN  /\ SliceLen(IterCall(steps[1], "x")) >= 2
            /\ ReadCall(steps[k], "x") = None
            /\ ReadCall(steps[k], "y") # None
            /\ Remaining(steps, k, "x") < Remaining(steps, k, "y")

\* The global rows step k of steps extracts from stream g.
RowsExtracted(steps, k, g) ==
    LET base == LastRead(steps, k, g).start + IterCall(steps[k], g).start
    IN  [j \in 1..SliceLen(IterCall(steps[k], g)) |-> base + j - 1]

\* Whether the call left start_offset and stop_offset at their defaults.
DefaultRange == args.start_offset = 0 /\ args.stop_offset = 0

\* C17: with start_offset and stop_offset left at their defaults the
\* windower is built over [0, number of rows of the feature array), and the
\* rows each stream consumes over a finished pass are 0, 1, ..., rows - 1,
\* in this order, each once.
C17_DefaultRange ==
    DefaultRange =>
        /\ pc \in {"suspended", "done"} => it.stop_offset = x_array.rows
        /\ \A p \in 1..Len(hist) :
              LET steps == hist[p].steps
              IN  /\ steps # <<>> =>
                        /\ ReadCall(steps[1], "x").start = 0
                        /\ ReadCall(steps[1], "y").start = 0
                  /\ hist[p].end = "done" =>
                        \A g \in Streams :
                            Flatten([k \in 1..Len(steps) |-> RowsExtracted(steps, k, g)])
                              = [j \in 1..x_array.rows |-> j - 1]

\* A pass called with the default offsets over arrays of several rows has
\* finished after more than one read of each stream.
C17_Witness ==
    /\ DefaultRange
    /\ pc = "done"
    /\ x_array.rows >= 3
    /\ Len(ReadSlices(Steps, "x")) >= 2
    /\ Len(ReadSlices(Steps, "y")) >= 2
    /\ it.stop_offset = x_array.rows

\* C18: from one yield to the next, the generator of a stream for which the
\* step carries no read slice is left as it was, buffer included, though
\* iter_tensors was called on it and read_buffer may have been called on the
\* other; the buffer of a stream that is read is the buffer of that read,
\* whatever is extracted from it; the pull that ends the pass changes no
\* generator.
C18_BufferFrame ==
    /\ [][(pc = "suspended" /\ pc' = "suspended" /\ Steps' # Steps) =>
            /\ ReadCall(Steps'[Len(Steps')], "x") = None => x_gen' = x_gen
            /\ ReadCall(Steps'[Len(Steps')], "y") = None => y_gen' = y_gen
            /\ ReadCall(Steps'[Len(Steps')], "x") # None =>
                  x_gen' = ReadBuffer(x_gen, ReadCall(Steps'[Len(Steps')], "x"))
            /\ ReadCall(Steps'[Len(Steps')], "y") # None =>
                  y_gen' = ReadBuffer(y_gen, ReadCall(Steps'[Len(Steps')], "y"))]_vars
    /\ [][(pc = "suspended" /\ pc' = "done") => (x_gen' = x_gen /\ y_gen' = y_gen)]_vars

\* The last step refilled the feature buffer only: the label generator
\* still holds the buffer of an earlier step, partly extracted.
C18_Witness ==
    /\ pc = "suspended"
    /\ Len(Steps) >= 2
    /\ ReadCall(Steps[Len(Steps)], "x") # None
    /\ ReadCall(Steps[Len(Steps)], "y") = None
    /\ IterCall(Steps[Len(Steps)], "y").start > 0
    /\ y_gen.buf = BufferOf("y", LastRead(Steps, Len(Steps) - 1, "y"))
    /\ x_gen.buf = BufferOf("x", ReadCall(Steps[Len(Steps)], "x"))

\* The calls of a pass on stream g, in the order they were made.
CallsOn(steps, g) ==
    SelectSeq(Flatten([k \in 1..Len(steps) |-> steps[k].calls]), LAMBDA c : c.gen = g)

\* C19: the first step of every pass carries a read slice for both
\* streams, read from start_offset on; the first call a pass makes on each
\* generator is read_buffer; no pass ends by the exception of an
\* iter_tensors without a buffer, and every step taken yields its batch.
C19_FirstStepReadsBoth ==
    /\ err # "AttributeError"
    /\ \A p \in 1..Len(hist) :
          LET steps == hist[p].steps
          IN  steps # <<>> =>
                /\ \A g \in Streams :
                      /\ ReadSliceOf(steps[1].batch, g) # None
                      /\ ReadCall(steps[1], g) # None
                      /\ ReadCall(steps[1], g).start = args.start_offset
                      /\ CallsOn(steps, g)[1].op = "read_buffer"
                      /\ IterCall(steps[1], g).start = 0
                /\ \A k \in 1..Len(steps) : steps[k].yielded # <<>>
                /\ hist[p].end \in {"suspended", "done"}

\* Two passes over buffers of different sizes: each began with a read of
\* both streams, and the second has yielded its first batch.
C19_Witness ==
    /\ Len(hist) = 2
    /\ hist[1].end = "done"
    /\ pc = "suspended"
    /\ Len(hist[2].steps) = 1
    /\ args.x_buffer_size # args.y_buffer_size
    /\ "_buf_arrays" \in y_gen.fields
    /\ "_buf_csrs" \in x_gen.fields

\* The leading dimension of a tensor.
LeadingDim(t) == IF t.kind = "sparse" THEN t.dense_shape[1] ELSE Len(t.rows)

\* C20: every step extracts at least one row of each stream, so every
\* tensor of every batch yielded has a leading dimension of at least 1, and
\* every step that yields moves both cursors of the windower forward.
C20_WidthAtLeastOne ==
    /\ [](\A p \in 1..Len(hist) : \A k \in 1..Len(hist[p].steps) :
            LET step == hist[p].steps[k]
            IN  /\ \A g \in Streams : SliceLen(IterCall(step, g)) >= 1
                /\ step.yielded # <<>>
                /\ \A i \in 1..Len(step.yielded) : LeadingDim(step.yielded[i]) >= 1)
    /\ [](pc = "suspended" =>
            /\ it.x_cursor = CursorAt(Steps, Len(Steps) + 1)
            /\ it.y_cursor = it.x_cursor)
    /\ [][(pc' = "suspended" /\ Steps' # Steps) =>
            /\ it'.x_cursor > (IF pc = "created" THEN args.start_offset ELSE it.x_cursor)
            /\ it'.y_cursor > (IF pc = "created" THEN args.start_offset ELSE it.y_cursor)]_vars

\* With both buffer sizes above 1, a step of a single row has been taken
\* and the cursors stand one row further.
C20_Witness ==
    /\ pc = "suspended"
    /\ Len(Steps) >= 2
    /\ args.x_buffer_size > 1 /\ args.y_buffer_size > 1
    /\ SliceLen(IterCall(Steps[Len(Steps)], "x")) = 1
    /\ it.x_cursor = CursorAt(Steps, Len(Steps)) + 1
    /\ it.x_cursor < EffectiveStop

====
